---- MODULE Spec2Model ----
(***************************************************************************)
(* Model of packages/docusaurus-plugin-openapi-docs/src/openapi/utils/     *)
(* utils/helpers.ts.                                                       *)
(*                                                                         *)
(* Every helper of the file is a function of its arguments; mergeObjects   *)
(* mutates its first argument.  A JavaScript string is modelled as the     *)
(* sequence of its characters (one-character TLA+ strings), so that        *)
(* prefixes, suffixes and regular-expression matches are computed          *)
(* character by character, as the engine does.  Each specification draws   *)
(* the arguments of one family of helpers from a bounded set in its Init   *)
(* and its actions call the helpers.                                       *)
(***************************************************************************)
EXTENDS Integers, Sequences, FiniteSets, TLC

VARIABLES
    pc,     \* position of the caller: "start", then one label per call made
    args,   \* the arguments of the call (a record)
    ret,    \* the value returned by the last call
    loc     \* local variables of a call that runs step by step (mapWithLast)

vars == <<pc, args, ret, loc>>

NoLocals == [i |-> 0, res |-> <<>>, calls |-> <<>>]

(***************************************************************************)
(* Strings as sequences of characters.                                     *)
(***************************************************************************)
NL == "\n"

\* All sequences over S of length at most n.
SeqsUpTo(S, n) == UNION {[1..k -> S] : k \in 0..n}

\* String.prototype.startsWith / endsWith
StartsWith(s, p) == Len(s) >= Len(p) /\ SubSeq(s, 1, Len(p)) = p

EndsWith(s, p) == Len(s) >= Len(p) /\ SubSeq(s, Len(s) - Len(p) + 1, Len(s)) = p

\* s.substring(from) with a 0-based index, i.e. the characters after the first `from`
Drop(s, from) == SubSeq(s, from + 1, Len(s))

\* does p occur in s starting at the 1-based position k
OccursAt(s, p, k) == k >= 1 /\ k + Len(p) - 1 <= Len(s) /\ SubSeq(s, k, k + Len(p) - 1) = p

(***************************************************************************)
(* Characters.  A character that can be written in a string of this        *)
(* language stands for itself; any other one (a control character, the     *)
(* grave accent, every character above '~') is named by its JavaScript     *)
(* escape: a backslash, 'u' and the four hexadecimal digits of its code.   *)
(***************************************************************************)
\* the characters with codes 32 to 126, in order
Ascii ==
    << " ", "!", "\"", "#", "$", "%", "&", "'", "(", ")", "*", "+",
       ",", "-", ".", "/", "0", "1", "2", "3", "4", "5", "6", "7",
       "8", "9", ":", ";", "<", "=", ">", "?", "@", "A", "B", "C",
       "D", "E", "F", "G", "H", "I", "J", "K", "L", "M", "N", "O",
       "P", "Q", "R", "S", "T", "U", "V", "W", "X", "Y", "Z", "[",
       "\\", "]", "^", "_", "\\u0060", "a", "b", "c", "d", "e", "f", "g",
       "h", "i", "j", "k", "l", "m", "n", "o", "p", "q", "r", "s",
       "t", "u", "v", "w", "x", "y", "z", "{", "|", "}", "~" >>

FirstAscii == 32

LowerHex == <<"0", "1", "2", "3", "4", "5", "6", "7", "8", "9", "a", "b", "c", "d", "e", "f">>

\* the name of the character of code c that has no literal
Escaped(c) ==
    "\\u" \o LowerHex[((c \div 4096) % 16) + 1] \o LowerHex[((c \div 256) % 16) + 1]
          \o LowerHex[((c \div 16) % 16) + 1] \o LowerHex[(c % 16) + 1]

\* String.fromCharCode(n): the character whose code is n modulo 2^16
fromCharCode(n) ==
    LET c == n % 65536 IN
    IF c >= FirstAscii /\ c < FirstAscii + Len(Ascii) THEN Ascii[c - FirstAscii + 1]
    ELSE IF c = 9 THEN "\t"
    ELSE IF c = 10 THEN "\n"
    ELSE IF c = 12 THEN "\f"
    ELSE IF c = 13 THEN "\r"
    ELSE Escaped(c)

AsciiChars == {fromCharCode(n) : n \in 0..127}

\* the code of an ASCII character
CodeOf(c) == CHOOSE n \in 0..127 : fromCharCode(n) = c

UpperLetters == {fromCharCode(n) : n \in 65..90}
Letters == UpperLetters \cup {fromCharCode(n) : n \in 97..122}
Digits == {fromCharCode(n) : n \in 48..57}

\* the value of a decimal digit
DigitValue(d) == CodeOf(d) - 48

\* A natural number with no upper limit is kept as its digits in base 256,
\* least significant first (none for 0).  The digits of bytes * r + carry:
RECURSIVE MulAdd(_, _, _)
MulAdd(bytes, r, carry) ==
    IF bytes = <<>>
    THEN (IF carry = 0 THEN <<>> ELSE <<carry % 256>> \o MulAdd(<<>>, r, carry \div 256))
    ELSE <<(Head(bytes) * r + carry) % 256>>
           \o MulAdd(Tail(bytes), r, (Head(bytes) * r + carry) \div 256)

\* ASCII lower-casing, of a character and of a string
ToLower(c) == IF c \in UpperLetters THEN fromCharCode(CodeOf(c) + 32) ELSE c

LowerCased(s) == [k \in 1..Len(s) |-> ToLower(s[k])]

(***************************************************************************)
(* stripTrailingSlash                                                      *)
(***************************************************************************)
\* a slip that drops the slash and the character before it
stripTrailingSlash_dropsTwo(path) ==
    IF EndsWith(path, <<"/">>) THEN SubSeq(path, 1, Len(path) - 2) ELSE path

stripTrailingSlash(path) ==
    IF EndsWith(path, <<"/">>) THEN SubSeq(path, 1, Len(path) - 1) ELSE path

MaxPathLen == 4

PathChars == {"/", "a", "b"}

InitStrip ==
    /\ pc = "start"
    /\ args \in [path : SeqsUpTo(PathChars, MaxPathLen)]
    /\ ret = <<>>
    /\ loc = NoLocals

\* const once = stripTrailingSlash(path)
CallStrip ==
    /\ pc = "start"
    /\ ret' = stripTrailingSlash(args.path)
    /\ pc' = "stripped"
    /\ UNCHANGED <<args, loc>>

\* stripTrailingSlash(once)
CallStripAgain ==
    /\ pc = "stripped"
    /\ ret' = stripTrailingSlash(ret)
    /\ pc' = "strippedTwice"
    /\ UNCHANGED <<args, loc>>

NextStrip == CallStrip \/ CallStripAgain

SpecStrip == InitStrip /\ [][NextStrip]_vars

(***************************************************************************)
(* isAbsoluteUrl, resolveUrl                                               *)
(***************************************************************************)
SchemeChars == Letters \cup Digits \cup {"+", ".", "-"}

\* the characters [a-z0-9+.-]* from position k on, up to the ':' that ends the
\* scheme: the position of that ':', or 0 when another character comes first
RECURSIVE SchemeScan(_, _)
SchemeScan(s, k) ==
    IF k > Len(s) THEN 0
    ELSE IF s[k] = ":" THEN k
    ELSE IF s[k] \in SchemeChars THEN SchemeScan(s, k + 1)
    ELSE 0

\* /^[a-z][a-z0-9+.-]*:/i : the position of the ':' of the match, 0 for no match
SchemeEnd(s) == IF Len(s) >= 1 /\ s[1] \in Letters THEN SchemeScan(s, 2) ELSE 0

\* /(?:^[a-z][a-z0-9+.-]*:|\/\/)/i.test(url): the '^' binds to the first
\* alternative only, the second one matches '//' at any position
isAbsoluteUrl(url) ==
    SchemeEnd(url) > 0 \/ \E k \in 1..Len(url) : OccursAt(url, <<"/", "/">>, k)

\* ---- new URL(url): the platform's parser (URL Standard), for ASCII input ----
\* The parser is the one of the platform the code runs on (Node.js 20): where
\* it departs from the URL Standard, the definitions say so and do as it does.
\* What the platform does that is not modelled is left without a value here (a
\* CASE with no arm for it): a character above code 127, an IPv6 literal, a
\* domain that needs IDNA processing (a percent-encoded byte above 127, a label
\* in 'xn--'), and two points on which the released parsers differ ('^' in a
\* path, a space that ends an opaque path before '?' or '#').
Null == <<"null">>

RECURSIVE Concat(_)
Concat(ps) == IF ps = <<>> THEN <<>> ELSE Head(ps) \o Concat(Tail(ps))

IsAsciiString(s) == \A k \in 1..Len(s) : s[k] \in AsciiChars

\* position of the first character of s at or after k that is in set, Len(s) + 1 if none
RECURSIVE IndexOf(_, _, _)
IndexOf(s, set, k) ==
    IF k > Len(s) THEN Len(s) + 1
    ELSE IF s[k] \in set THEN k
    ELSE IndexOf(s, set, k + 1)

\* the pieces of s between the separators of set
RECURSIVE Split(_, _)
Split(s, set) ==
    LET k == IndexOf(s, set, 1) IN
    IF k > Len(s) THEN <<s>> ELSE <<SubSeq(s, 1, k - 1)>> \o Split(Drop(s, k), set)

\* leading and trailing C0 controls and spaces are dropped, then every tab and
\* newline
RECURSIVE StripLeading(_)
StripLeading(s) ==
    IF s # <<>> /\ CodeOf(Head(s)) <= 32 THEN StripLeading(Tail(s)) ELSE s

RECURSIVE StripTrailing(_)
StripTrailing(s) ==
    IF s # <<>> /\ CodeOf(s[Len(s)]) <= 32
    THEN StripTrailing(SubSeq(s, 1, Len(s) - 1)) ELSE s

RemoveTabOrNewline(s) == SelectSeq(s, LAMBDA c : c \notin {"\t", "\n", "\r"})

\* percent-encode sets, as sets of codes
C0ControlSet == (0..31) \cup {127}
QuerySet == C0ControlSet \cup {32, 34, 35, 60, 62}
PathSet == QuerySet \cup {63, 96, 123, 125}
UserinfoSet == PathSet \cup {47, 58, 59, 61, 64, 91, 92, 93, 94, 124}

UpperHex == <<"0", "1", "2", "3", "4", "5", "6", "7", "8", "9", "A", "B", "C", "D", "E", "F">>

Encode(s, set) ==
    Concat([k \in 1..Len(s) |->
              IF CodeOf(s[k]) \in set
              THEN <<"%", UpperHex[(CodeOf(s[k]) \div 16) + 1], UpperHex[(CodeOf(s[k]) % 16) + 1]>>
              ELSE <<s[k]>>])

SpecialSchemes ==
    { <<"h", "t", "t", "p">>, <<"h", "t", "t", "p", "s">>, <<"w", "s">>,
      <<"w", "s", "s">>, <<"f", "t", "p">>, <<"f", "i", "l", "e">> }

FileScheme == <<"f", "i", "l", "e">>

\* the default port of a special scheme, -1 for file (which has none)
DefaultPort(scheme) ==
    IF scheme \in {<<"h", "t", "t", "p">>, <<"w", "s">>} THEN 80
    ELSE IF scheme \in {<<"h", "t", "t", "p", "s">>, <<"w", "s", "s">>} THEN 443
    ELSE IF scheme = <<"f", "t", "p">> THEN 21
    ELSE -1

\* the decimal digits of a natural number
RECURSIVE Decimal(_)
Decimal(n) ==
    IF n < 10 THEN <<fromCharCode(48 + n)>>
    ELSE Decimal(n \div 10) \o <<fromCharCode(48 + (n % 10))>>

\* ---- hosts --------------------------------------------------------------------
ForbiddenHostCodes == {0, 9, 10, 13, 32, 35, 47, 58, 60, 62, 63, 64, 91, 92, 93, 94, 124}

HostFailure == [ok |-> FALSE, host |-> <<>>]

HexDigits == Digits \cup {"a", "b", "c", "d", "e", "f", "A", "B", "C", "D", "E", "F"}

HexValue(c) ==
    IF c \in Digits THEN CodeOf(c) - 48 ELSE CodeOf(ToLower(c)) - 87

\* percent-decode: the bytes of s, a '%' with two hexadecimal digits giving one
RECURSIVE PercentDecode(_)
PercentDecode(s) ==
    IF s = <<>> THEN <<>>
    ELSE IF s[1] = "%" /\ Len(s) >= 3 /\ s[2] \in HexDigits /\ s[3] \in HexDigits
      THEN <<16 * HexValue(s[2]) + HexValue(s[3])>> \o PercentDecode(Drop(s, 3))
    ELSE <<CodeOf(s[1])>> \o PercentDecode(Tail(s))

\* A number of an IPv4 address has no upper limit: it is kept in base 256.
RECURSIVE RadixValue(_, _, _)
RadixValue(ds, r, acc) ==
    IF ds = <<>> THEN acc ELSE RadixValue(Tail(ds), r, MulAdd(acc, r, HexValue(Head(ds))))


\* the IPv4 number parser: '0x' announces base 16, another leading '0' base 8
ParseIPv4Number(part) ==
    IF part = <<>> THEN [ok |-> FALSE, bytes |-> <<>>]
    ELSE LET hex == Len(part) >= 2 /\ part[1] = "0" /\ part[2] \in {"x", "X"}
             octal == ~hex /\ Len(part) >= 2 /\ part[1] = "0"
             ds == IF hex THEN Drop(part, 2) ELSE IF octal THEN Drop(part, 1) ELSE part
             r == IF hex THEN 16 ELSE IF octal THEN 8 ELSE 10
             allowed == IF hex THEN HexDigits
                        ELSE IF octal THEN {"0", "1", "2", "3", "4", "5", "6", "7"}
                        ELSE Digits
         IN IF \A k \in 1..Len(ds) : ds[k] \in allowed
            THEN [ok |-> TRUE, bytes |-> RadixValue(ds, r, <<>>)]
            ELSE [ok |-> FALSE, bytes |-> <<>>]

\* the parts of a host between its dots, without a last empty one
IPv4Parts(host) ==
    LET parts == Split(host, {"."}) IN
    IF parts[Len(parts)] = <<>> /\ Len(parts) > 1
    THEN SubSeq(parts, 1, Len(parts) - 1) ELSE parts

\* the ends-in-a-number checker
EndsInNumber(host) ==
    LET parts == IPv4Parts(host)
        last == parts[Len(parts)]
    IN \/ last # <<>> /\ \A k \in 1..Len(last) : last[k] \in Digits
       \/ ParseIPv4Number(last).ok

\* the address that the numbers of an IPv4 host make, serialised: at most
\* four numbers, all but the last below 256, the last one filling the bytes
\* that remain
IPv4Address(nums) ==
    LET n == Len(nums)
        last == nums[n].bytes
        high == [k \in 1..(n - 1) |->
                   IF nums[k].bytes = <<>> THEN 0 ELSE nums[k].bytes[1]]
        low == [k \in 1..(5 - n) |->
                   IF 5 - n - k + 1 <= Len(last) THEN last[5 - n - k + 1] ELSE 0]
        address == high \o low
    IN IF /\ n <= 4
          /\ \A k \in 1..n : nums[k].ok
          /\ \A k \in 1..(n - 1) : Len(nums[k].bytes) <= 1
          /\ Len(last) <= 5 - n
       THEN [ok |-> TRUE,
             host |-> Decimal(address[1]) \o <<".">> \o Decimal(address[2]) \o <<".">>
                        \o Decimal(address[3]) \o <<".">> \o Decimal(address[4])]
       ELSE HostFailure

\* the IPv4 parser: every part of the host is parsed as a number
ParseIPv4(host) ==
    IPv4Address([k \in 1..Len(IPv4Parts(host)) |-> ParseIPv4Number(IPv4Parts(host)[k])])

IsBracketed(input) == input # <<>> /\ input[1] = "["

\* the host that the percent-decoded bytes of a domain make: lower-cased,
\* checked for forbidden code points, and an IPv4 address when it ends in a
\* number
DecodedHost(bytes) ==
    CASE \A k \in 1..Len(bytes) : bytes[k] < 128 ->
        LET domain == [k \in 1..Len(bytes) |-> ToLower(fromCharCode(bytes[k]))]
        IN (CASE \A k \in 1..Len(Split(domain, {"."})) :
                    ~StartsWith(Split(domain, {"."})[k], <<"x", "n", "-", "-">>) ->
                IF \E k \in 1..Len(bytes) :
                       bytes[k] \in ForbiddenHostCodes \cup (0..31) \cup {37, 127}
                  THEN HostFailure
                ELSE IF EndsInNumber(domain) THEN ParseIPv4(domain)
                ELSE [ok |-> TRUE, host |-> domain])

\* the host parser for a special scheme: a domain or an IPv4 address
DomainHost(input) ==
    CASE ~IsBracketed(input) -> DecodedHost(PercentDecode(input))
      [] IsBracketed(input) /\ input[Len(input)] # "]" -> HostFailure

\* the host parser for any other scheme: an opaque host
OpaqueHost(input) ==
    CASE ~IsBracketed(input) ->
        IF \E k \in 1..Len(input) : CodeOf(input[k]) \in ForbiddenHostCodes THEN HostFailure
        ELSE [ok |-> TRUE, host |-> Encode(input, C0ControlSet)]
      [] IsBracketed(input) /\ input[Len(input)] # "]" -> HostFailure

\* ---- authority ----------------------------------------------------------------
\* position of the last '@' of s, 0 if none
RECURSIVE LastAt(_, _)
LastAt(s, k) == IF k = 0 \/ s[k] = "@" THEN k ELSE LastAt(s, k - 1)

\* position of the first ':' of s at or after k that is outside square brackets,
\* Len(s) + 1 if none
RECURSIVE PortColon(_, _, _)
PortColon(s, k, inside) ==
    IF k > Len(s) THEN Len(s) + 1
    ELSE IF s[k] = ":" /\ ~inside THEN k
    ELSE PortColon(s, k + 1, IF s[k] = "[" THEN TRUE ELSE IF s[k] = "]" THEN FALSE ELSE inside)

MaxPort == 65535

\* the value of a run of digits, MaxPort + 1 standing for every larger value
RECURSIVE PortValue(_, _)
PortValue(ds, acc) ==
    IF ds = <<>> THEN acc
    ELSE LET v == 10 * acc + DigitValue(Head(ds))
         IN PortValue(Tail(ds), IF v > MaxPort THEN MaxPort + 1 ELSE v)

AuthorityFailure ==
    [ok |-> FALSE, username |-> <<>>, password |-> <<>>, host |-> <<>>, port |-> Null]

\* the authority that the credentials, the parsed host and the port make
Authority(userinfo, host, port) ==
    IF ~host.ok THEN AuthorityFailure
    ELSE [ok |-> TRUE,
          username |-> Encode(SubSeq(userinfo, 1, IndexOf(userinfo, {":"}, 1) - 1), UserinfoSet),
          password |-> Encode(Drop(userinfo, IndexOf(userinfo, {":"}, 1)), UserinfoSet),
          host |-> host.host,
          port |-> port]

\* the authority, host and port states: credentials up to the last '@', then the
\* host, then the port after the first ':' outside brackets
ParseAuthority(authority, scheme) ==
    LET special == scheme \in SpecialSchemes
        at == LastAt(authority, Len(authority))
        hostport == Drop(authority, at)
        colon == PortColon(hostport, 1, FALSE)
        name == SubSeq(hostport, 1, colon - 1)
        digits == Drop(hostport, colon)
        value == PortValue(digits, 0)
    IN IF \/ at > 0 /\ hostport = <<>>
          \/ colon <= Len(hostport) /\ name = <<>>
          \/ special /\ name = <<>>
          \/ \E k \in 1..Len(digits) : digits[k] \notin Digits
          \/ value > MaxPort
       THEN AuthorityFailure
       ELSE Authority(SubSeq(authority, 1, at - 1),
                      IF special THEN DomainHost(name) ELSE OpaqueHost(name),
                      IF digits = <<>> \/ value = DefaultPort(scheme)
                        THEN Null ELSE Decimal(value))

\* ---- paths --------------------------------------------------------------------
IsSingleDot(buffer) ==
    LowerCased(buffer) \in {<<".">>, <<"%", "2", "e">>}

IsDoubleDot(buffer) ==
    LowerCased(buffer) \in
        { <<".", ".">>, <<".", "%", "2", "e">>, <<"%", "2", "e", ".">>,
          <<"%", "2", "e", "%", "2", "e">> }

\* a Windows drive letter: a letter followed by ':' or '|'
IsDriveLetter(buffer) ==
    Len(buffer) = 2 /\ buffer[1] \in Letters /\ buffer[2] \in {":", "|"}

\* shorten a path: its last segment is removed, except the only segment of a
\* file URL when it opens with a drive letter.  The platform's parser keeps
\* every such segment ('c:x' as well as 'c:'; the URL Standard keeps it only
\* when it is the two characters of the drive letter).
Shorten(path, scheme) ==
    IF path = <<>> THEN path
    ELSE IF /\ scheme = FileScheme /\ Len(path) = 1
            /\ Len(path[1]) >= 2 /\ path[1][1] \in Letters /\ path[1][2] = ":"
      THEN path
    ELSE SubSeq(path, 1, Len(path) - 1)

\* the path state, one segment at a time: '..' shortens the path, '.' is
\* dropped, and either one leaves an empty segment when it is the last.  The
\* platform's parser leaves none after a last '..' that finds the path of a
\* non-special URL empty already (the URL Standard leaves one there too).
RECURSIVE PathSegments(_, _, _, _)
PathSegments(buffers, k, path, scheme) ==
    IF k > Len(buffers) THEN path
    ELSE LET buffer == buffers[k]
             last == k = Len(buffers)
             next ==
               IF IsDoubleDot(buffer)
                 THEN Shorten(path, scheme)
                        \o (IF last /\ (path # <<>> \/ scheme \in SpecialSchemes)
                              THEN <<<<>>>> ELSE <<>>)
               ELSE IF IsSingleDot(buffer)
                 THEN path \o (IF last THEN <<<<>>>> ELSE <<>>)
               ELSE IF scheme = FileScheme /\ path = <<>> /\ IsDriveLetter(buffer)
                 THEN <<<<buffer[1], ":">>>>
               ELSE Append(path, buffer)
         IN PathSegments(buffers, k + 1, next, scheme)

\* the path state on the text s that follows the slash that opened the path
ParsePath(s, scheme) ==
    CASE \A k \in 1..Len(s) : s[k] # "^" ->
        LET seps == IF scheme \in SpecialSchemes THEN {"/", "\\"} ELSE {"/"}
            pieces == Split(s, seps)
            buffers == [k \in 1..Len(pieces) |-> Encode(pieces[k], PathSet)]
        IN PathSegments(buffers, 1, <<>>, scheme)

\* ---- the parser ---------------------------------------------------------------
URLFailure ==
    [ok |-> FALSE, protocol |-> <<>>, username |-> <<>>, password |-> <<>>,
     host |-> Null, port |-> Null, opaque |-> FALSE, path |-> <<>>,
     query |-> Null, fragment |-> Null]

\* a parsed URL: protocol is the scheme and its ':'; host, port, query and
\* fragment may be Null; path is a list of segments, or a string when opaque
URLRecord(scheme, authority, opaque, path, query, fragment) ==
    IF ~authority.ok THEN URLFailure
    ELSE [ok |-> TRUE, protocol |-> scheme \o <<":">>,
          username |-> authority.username, password |-> authority.password,
          host |-> authority.host, port |-> authority.port,
          opaque |-> opaque, path |-> path, query |-> query, fragment |-> fragment]

NoAuthority ==
    [ok |-> TRUE, username |-> <<>>, password |-> <<>>, host |-> Null, port |-> Null]

RECURSIVE SkipSlashes(_)
SkipSlashes(s) ==
    IF s # <<>> /\ s[1] \in {"/", "\\"} THEN SkipSlashes(Tail(s)) ELSE s

\* http, https, ws, wss, ftp: every slash after the scheme is skipped, the
\* authority runs to the next slash and the path is never empty
SpecialURL(scheme, main, query, fragment) ==
    LET r == SkipSlashes(main)
        e == IndexOf(r, {"/", "\\"}, 1)
    IN URLRecord(scheme, ParseAuthority(SubSeq(r, 1, e - 1), scheme), FALSE,
                 ParsePath(Drop(r, e), scheme), query, fragment)

\* the authority of a file URL: its host is empty when none is given, and
\* 'localhost' is the empty host
FileAuthority(host) ==
    [ok |-> host.ok, username |-> <<>>, password |-> <<>>,
     host |-> IF host.host = <<"l", "o", "c", "a", "l", "h", "o", "s", "t">>
                THEN <<>> ELSE host.host,
     port |-> Null]

\* file: the host is empty unless two slashes announce one; a Windows drive
\* letter in the place of the host opens the path
FileURL(main, query, fragment) ==
    LET slash(k) == Len(main) >= k /\ main[k] \in {"/", "\\"}
        r == Drop(main, 2)
        e == IndexOf(r, {"/", "\\"}, 1)
        buffer == SubSeq(r, 1, e - 1)
        hosted == slash(1) /\ slash(2) /\ ~IsDriveLetter(buffer) /\ buffer # <<>>
    IN URLRecord(FileScheme,
                 FileAuthority(IF hosted THEN DomainHost(buffer)
                               ELSE [ok |-> TRUE, host |-> <<>>]),
                 FALSE,
                 ParsePath(IF ~slash(1) THEN main
                           ELSE IF ~slash(2) THEN Drop(main, 1)
                           ELSE IF IsDriveLetter(buffer) THEN r
                           ELSE Drop(r, e),
                           FileScheme),
                 query, fragment)

\* any other scheme: '//' announces an authority, '/' a path, anything else an
\* opaque path
OtherURL(scheme, main, query, fragment) ==
    IF StartsWith(main, <<"/", "/">>) THEN
        LET r == Drop(main, 2)
            e == IndexOf(r, {"/"}, 1)
        IN URLRecord(scheme, ParseAuthority(SubSeq(r, 1, e - 1), scheme), FALSE,
                     IF e > Len(r) THEN <<>> ELSE ParsePath(Drop(r, e), scheme),
                     query, fragment)
    ELSE IF StartsWith(main, <<"/">>) THEN
        URLRecord(scheme, NoAuthority, FALSE, ParsePath(Drop(main, 1), scheme), query, fragment)
    ELSE
        CASE ~(main # <<>> /\ main[Len(main)] = " " /\ (query # Null \/ fragment # Null)) ->
            URLRecord(scheme, NoAuthority, TRUE, Encode(main, C0ControlSet), query, fragment)

\* new URL(url), with no base: a string without a scheme does not parse
ParseURL(url) ==
    CASE IsAsciiString(url) ->
        LET s == RemoveTabOrNewline(StripTrailing(StripLeading(url)))
            e == SchemeEnd(s)
            scheme == LowerCased(SubSeq(s, 1, e - 1))
            rest == Drop(s, e)
            h == IndexOf(rest, {"#"}, 1)
            q == IndexOf(SubSeq(rest, 1, h - 1), {"?"}, 1)
            main == SubSeq(rest, 1, (IF q < h THEN q ELSE h) - 1)
            query == IF q >= h THEN Null
                     ELSE Encode(SubSeq(rest, q + 1, h - 1),
                                 IF scheme \in SpecialSchemes THEN QuerySet \cup {39} ELSE QuerySet)
            fragment == IF h > Len(rest) THEN Null ELSE Encode(Drop(rest, h), C0ControlSet \cup {32, 34, 60, 62, 96})
        IN IF e = 0 THEN URLFailure
           ELSE IF scheme = FileScheme THEN FileURL(main, query, fragment)
           ELSE IF scheme \in SpecialSchemes THEN SpecialURL(scheme, main, query, fragment)
           ELSE OtherURL(scheme, main, query, fragment)

\* urlObj.href: the URL serialiser
Href(u) ==
    LET credentials ==
            IF u.username = <<>> /\ u.password = <<>> THEN <<>>
            ELSE u.username \o (IF u.password = <<>> THEN <<>> ELSE <<":">> \o u.password) \o <<"@">>
        authority ==
            IF u.host # Null
              THEN <<"/", "/">> \o credentials \o u.host
                     \o (IF u.port = Null THEN <<>> ELSE <<":">> \o u.port)
            ELSE IF ~u.opaque /\ Len(u.path) > 1 /\ u.path[1] = <<>> THEN <<"/", ".">>
            ELSE <<>>
        path == IF u.opaque THEN u.path
                ELSE Concat([k \in 1..Len(u.path) |-> <<"/">> \o u.path[k]])
    IN u.protocol \o authority \o path
         \o (IF u.query = Null THEN <<>> ELSE <<"?">> \o u.query)
         \o (IF u.fragment = Null THEN <<>> ELSE <<"#">> \o u.fragment)

\* urlObj.pathname = to: nothing for an opaque path; else the path is emptied
\* and `to` is parsed from the path start state, where '?' and '#' belong to the
\* path.  When the new path opens with an empty segment and the URL has no
\* host, the platform's setter writes '/.' before the path and loses the query
\* and the fragment (the URL Standard keeps them).
SetPathname(u, to) ==
    CASE IsAsciiString(to) ->
        LET value == RemoveTabOrNewline(to)
            scheme == SubSeq(u.protocol, 1, Len(u.protocol) - 1)
            special == scheme \in SpecialSchemes
            slash == value # <<>> /\ value[1] \in (IF special THEN {"/", "\\"} ELSE {"/"})
            path == IF value = <<>> /\ ~special
                      THEN (IF u.host = Null THEN <<<<>>>> ELSE <<>>)
                    ELSE ParsePath(IF slash THEN Tail(value) ELSE value, scheme)
        IN IF u.opaque THEN u
           ELSE IF u.host = Null /\ Len(path) > 1 /\ path[1] = <<>>
             THEN [u EXCEPT !.path = path, !.query = Null, !.fragment = Null]
           ELSE [u EXCEPT !.path = path]

\* urlObj.pathname = to; urlObj.href
HrefWithPathname(u, to) == Href(SetPathname(u, to))

Returned(v) == [threw |-> FALSE, value |-> v]

\* try { new URL(url).protocol || "https:" } catch { "https:" }
ProtocolOrHttps(u) ==
    IF u.ok /\ u.protocol # <<>> THEN u.protocol ELSE <<"h", "t", "t", "p", "s", ":">>

\* try { urlObj.pathname = to; urlObj.href } catch { to }
HrefOrTarget(u, to) == IF u.ok THEN HrefWithPathname(u, to) ELSE to

resolveUrl(url, to) ==
    Returned(stripTrailingSlash(
        IF StartsWith(to, <<"/", "/">>) THEN ProtocolOrHttps(ParseURL(url)) \o to
        ELSE IF isAbsoluteUrl(to) THEN to
        ELSE IF ~StartsWith(to, <<"/">>) THEN stripTrailingSlash(url) \o <<"/">> \o to
        ELSE HrefOrTarget(ParseURL(url), to)))

MaxToLen == 4

ToChars == {"a", "1", ":", "/"}

Bases ==
    { <<>>,
      <<"t", ".", "c", "o">>,
      <<"/", "a", "/">>,
      <<"h", "t", "t", "p", ":", "/", "/", "t", ".", "c", "o">>,
      <<"h", "t", "t", "p", ":", "/", "/", "t", ".", "c", "o", "/">>,
      <<"h", "t", "t", "p", ":", "/", "/", "t", ".", "c", "o", ":", "{", "p", "}">>,
      <<"h", "t", "t", "p", ":", "/", "/", "{", "p", "}">>,
      <<"h", "t", "t", "p", ":", "/", "/", "T", ".", "c", "o", "?", "a">>,
      <<"a", ":", "/", "p">>,
      <<"h", "t", "t", "p", "s", ":", "/", "/", "t", ".", "c", "o", ":", "8", "1", "/", "a", "/">> }

InitUrl ==
    /\ pc = "start"
    /\ args \in [url : Bases, to : SeqsUpTo(ToChars, MaxToLen)]
    /\ ret = Returned(<<>>)
    /\ loc = NoLocals

CallIsAbsoluteUrl ==
    /\ pc = "start"
    /\ ret' = Returned(isAbsoluteUrl(args.to))
    /\ pc' = "isAbsoluteUrl"
    /\ UNCHANGED <<args, loc>>

CallResolveUrl ==
    /\ pc = "start"
    /\ ret' = resolveUrl(args.url, args.to)
    /\ pc' = "resolveUrl"
    /\ UNCHANGED <<args, loc>>

NextUrl == CallIsAbsoluteUrl \/ CallResolveUrl

SpecUrl == InitUrl /\ [][NextUrl]_vars

(***************************************************************************)
(* unescapeHTMLChars                                                       *)
(***************************************************************************)
\* ---- parseInt(code, 10) ------------------------------------------------------
\* A run of digits has no upper limit, and a Number holds an integer exactly
\* only up to 53 binary digits: a Number is kept as the binary digits of its
\* value, least significant first (none for 0).  Infinity, the value of a run
\* of more than 308 digits, is not modelled.
MantissaBits == 53

MaxExponent == 1024

\* the exact value of the digits ds appended to the value acc, in base 256 and
\* least significant digit first; a value that has passed the largest Number
\* is not computed further
RECURSIVE DecimalValue(_, _)
DecimalValue(ds, acc) ==
    IF ds = <<>> \/ 8 * Len(acc) > MaxExponent + 8 THEN acc
    ELSE DecimalValue(Tail(ds), MulAdd(acc, 10, DigitValue(Head(ds))))

\* the number of binary digits of a value below 256
RECURSIVE BitLength(_)
BitLength(v) == IF v = 0 THEN 0 ELSE 1 + BitLength(v \div 2)

\* 2^n
RECURSIVE Pow2(_)
Pow2(n) == IF n = 0 THEN 1 ELSE 2 * Pow2(n - 1)

\* the binary digits of a value given in base 256
BitsOf(bytes) ==
    IF bytes = <<>> THEN <<>>
    ELSE [j \in 1..(8 * (Len(bytes) - 1) + BitLength(bytes[Len(bytes)])) |->
            (bytes[((j - 1) \div 8) + 1] \div Pow2((j - 1) % 8)) % 2]

\* a + b + c for binary digits a, b and a carry c
RECURSIVE AddBits(_, _, _)
AddBits(a, b, c) ==
    IF a = <<>> /\ b = <<>> THEN (IF c = 1 THEN <<1>> ELSE <<>>)
    ELSE LET x == IF a = <<>> THEN 0 ELSE Head(a)
             y == IF b = <<>> THEN 0 ELSE Head(b)
             ta == IF a = <<>> THEN <<>> ELSE Tail(a)
             tb == IF b = <<>> THEN <<>> ELSE Tail(b)
         IN <<(x + y + c) % 2>> \o AddBits(ta, tb, (x + y + c) \div 2)

\* the nearest Number to an exact value, ties to the even mantissa
RoundToDouble(bits) ==
    IF Len(bits) <= MantissaBits THEN bits
    ELSE LET shift == Len(bits) - MantissaBits
             kept == SubSeq(bits, shift + 1, Len(bits))
             half == bits[shift] = 1
             sticky == \E j \in 1..(shift - 1) : bits[j] = 1
             up == half /\ (sticky \/ kept[1] = 1)
         IN [j \in 1..shift |-> 0] \o (IF up THEN AddBits(kept, <<1>>, 0) ELSE kept)

\* parseInt(code, 10) of a run of digits
parseInt(ds) ==
    LET r == RoundToDouble(BitsOf(DecimalValue(ds, <<>>))) IN
    CASE Len(r) <= MaxExponent -> r

\* the value of at most sixteen binary digits
RECURSIVE BitsValue(_)
BitsValue(bits) == IF bits = <<>> THEN 0 ELSE Head(bits) + 2 * BitsValue(Tail(bits))

\* ToUint16, which String.fromCharCode applies to its argument: the value
\* modulo 2^16
ToUint16(x) == BitsValue(SubSeq(x, 1, IF Len(x) < 16 THEN Len(x) ELSE 16))

\* the end of the run of digits that starts at position k (k - 1 when there is none)
RECURSIVE DigitsEnd(_, _)
DigitsEnd(s, k) ==
    IF k <= Len(s) /\ s[k] \in Digits THEN DigitsEnd(s, k + 1) ELSE k - 1

\* /&#(\d+);/ at position k: the position of the ';' of the match, 0 for no match
NumericRefEnd(s, k) ==
    IF OccursAt(s, <<"&", "#">>, k)
    THEN LET e == DigitsEnd(s, k + 2) IN
         IF e >= k + 2 /\ e + 1 <= Len(s) /\ s[e + 1] = ";" THEN e + 1 ELSE 0
    ELSE 0

\* str.replace(/&#(\d+);/g, (_m, code) => String.fromCharCode(parseInt(code, 10)))
\* from position k on: matches are taken left to right and do not overlap
RECURSIVE ReplaceNumericRefs(_, _)
ReplaceNumericRefs(s, k) ==
    IF k > Len(s) THEN <<>>
    ELSE LET e == NumericRefEnd(s, k) IN
         IF e > 0
         THEN <<fromCharCode(ToUint16(parseInt(SubSeq(s, k + 2, e - 1))))>>
                \o ReplaceNumericRefs(s, e + 1)
         ELSE <<s[k]>> \o ReplaceNumericRefs(s, k + 1)

\* str.replace(/pat/g, rep) for a literal pattern, from position k on
RECURSIVE ReplaceAll(_, _, _, _)
ReplaceAll(s, pat, rep, k) ==
    IF k > Len(s) THEN <<>>
    ELSE IF OccursAt(s, pat, k) THEN rep \o ReplaceAll(s, pat, rep, k + Len(pat))
    ELSE <<s[k]>> \o ReplaceAll(s, pat, rep, k + 1)

AmpEntity == <<"&", "a", "m", "p", ";">>

QuotEntity == <<"&", "q", "u", "o", "t", ";">>

unescapeHTMLChars(str) ==
    ReplaceAll(
        ReplaceAll(ReplaceNumericRefs(str, 1), AmpEntity, <<"&">>, 1),
        QuotEntity, <<"\"">>, 1)

MaxPieces == 3

\* the inputs are concatenations of these fragments
Pieces ==
    { <<"&">>,
      <<"a", "m", "p", ";">>,
      <<"q", "u", "o", "t", ";">>,
      <<"#", "3", "8", ";">>,
      <<"#", "3", "4", ";">>,
      <<"&", "#", "6", "5", ";">>,
      <<"#", "9", "7", ";">>,
      <<"m", "p", ";">>,
      <<"x">>,
      <<"&", "a", "m", "p", ";">>,
      <<"&", "q", "u", "o", "t", ";">> }

InitUnescape ==
    /\ pc = "start"
    /\ args \in [str : {Concat(ps) : ps \in SeqsUpTo(Pieces, MaxPieces)}]
    /\ ret = <<>>
    /\ loc = NoLocals

CallUnescape ==
    /\ pc = "start"
    /\ ret' = unescapeHTMLChars(args.str)
    /\ pc' = "unescaped"
    /\ UNCHANGED <<args, loc>>

NextUnescape == CallUnescape

SpecUnescape == InitUnescape /\ [][NextUnescape]_vars

(***************************************************************************)
(* mapWithLast, one step per loop iteration.  loc.calls records the        *)
(* arguments of every call of the iteratee, in the order of the calls.     *)
(***************************************************************************)
\* the caller's transform: the value it returns shows the arguments it was given
iteratee(item, isLast) == <<"P", item, isLast>>

\* a loop that runs over the last element too
LoopCondition_throughLast(i, array) == i < Len(array)

\* i < array.length - 1
LoopCondition(i, array) == i < Len(array) - 1

MaxArrayLen == 3

Items == {1, 2, 3}

InitMap ==
    /\ pc = "start"
    /\ args \in [array : SeqsUpTo(Items, MaxArrayLen)]
    /\ ret = <<>>
    /\ loc = NoLocals

\* const res = []; let i = 0
MapEnter ==
    /\ pc = "start"
    /\ loc' = [i |-> 0, res |-> <<>>, calls |-> <<>>]
    /\ pc' = "loop"
    /\ UNCHANGED <<args, ret>>

\* res.push(iteratee(array[i], false)); i++   (array[i] is the (i+1)-th element)
MapLoopStep ==
    /\ pc = "loop"
    /\ LoopCondition(loc.i, args.array)
    /\ loc' = [i |-> loc.i + 1,
               res |-> Append(loc.res, iteratee(args.array[loc.i + 1], FALSE)),
               calls |-> Append(loc.calls, <<args.array[loc.i + 1], FALSE>>)]
    /\ UNCHANGED <<pc, args, ret>>

MapLoopExit ==
    /\ pc = "loop"
    /\ ~LoopCondition(loc.i, args.array)
    /\ pc' = "afterLoop"
    /\ UNCHANGED <<args, ret, loc>>

\* if (array.length !== 0) res.push(iteratee(array[array.length - 1], true))
MapPushLast ==
    /\ pc = "afterLoop"
    /\ Len(args.array) # 0
    /\ loc' = [loc EXCEPT
                 !.res = Append(loc.res, iteratee(args.array[Len(args.array)], TRUE)),
                 !.calls = Append(loc.calls, <<args.array[Len(args.array)], TRUE>>)]
    /\ pc' = "return"
    /\ UNCHANGED <<args, ret>>

MapSkipLast ==
    /\ pc = "afterLoop"
    /\ Len(args.array) = 0
    /\ pc' = "return"
    /\ UNCHANGED <<args, ret, loc>>

\* return res
MapReturn ==
    /\ pc = "return"
    /\ ret' = loc.res
    /\ pc' = "done"
    /\ UNCHANGED <<args, loc>>

NextMap ==
    \/ MapEnter
    \/ MapLoopStep
    \/ MapLoopExit
    \/ MapPushLast
    \/ MapSkipLast
    \/ MapReturn

SpecMap == InitMap /\ [][NextMap]_vars

(***************************************************************************)
(* appendToMdHeading.  The heading is spliced into both regular            *)
(* expressions and the content into the replacement string.  What is       *)
(* modelled is a heading without any character that is an operator in a    *)
(* regular expression, and a content without '$'; two characters outside   *)
(* ASCII are compared only for equality.                                   *)
(***************************************************************************)
\* \s: the white space and the line terminators
SpaceChars ==
    {fromCharCode(n) : n \in {9, 10, 11, 12, 13, 32, 160, 5760, 8232, 8233, 8239, 8287,
                               12288, 65279} \cup (8192..8202)}

IsSpace(c) == c \in SpaceChars

\* the line terminators, which '.' does not match
LineTerminators == {fromCharCode(n) : n \in {10, 13, 8232, 8233}}

\* the characters that a regular expression does not take literally
RegexOperators == {"\\", "^", "$", ".", "*", "+", "?", "(", ")", "[", "]", "{", "}", "|"}

\* case folding of the "i" flag: an ASCII letter matches its other case and no
\* character outside ASCII
MatchIgnoringCase(c, d) ==
    CASE c = d -> TRUE
      [] c # d /\ (c \in AsciiChars \/ d \in AsciiChars) -> ToLower(c) = ToLower(d)

\* the literal h, compared case-insensitively, occurs in s at position k
OccursIgnoringCaseAt(s, h, k) ==
    /\ k >= 1
    /\ k + Len(h) - 1 <= Len(s)
    /\ \A j \in 1..Len(h) : MatchIgnoringCase(s[k + j - 1], h[j])

\* the end of the longest run of \s that starts at position k (k - 1 when empty)
RECURSIVE SpacesEnd(_, _)
SpacesEnd(s, k) ==
    IF k <= Len(s) /\ IsSpace(s[k]) THEN SpacesEnd(s, k + 1) ELSE k - 1

\* (^|\n) or (\n|^) followed by '#': a '#' at position p that opens the string
\* or follows a newline
HashAt(s, p) == p \in 1..Len(s) /\ s[p] = "#" /\ (p = 1 \/ s[p - 1] = NL)

\* new RegExp(`(^|\\n)#\\s?${heading}\\s*\\n`, "i").test(md):
\* '#', at most one \s, the heading, then a run of \s that holds a newline
testRegex(md, heading) ==
    \E p \in 1..Len(md) :
        /\ HashAt(md, p)
        /\ \E o \in {0, 1} :
              /\ o = 1 => (p + 1 <= Len(md) /\ IsSpace(md[p + 1]))
              /\ OccursIgnoringCaseAt(md, heading, p + 1 + o)
              /\ LET a == p + 1 + o + Len(heading)
                 IN \E q \in a..SpacesEnd(md, a) : md[q] = NL

\* the lazy (?:.|\n)*? from position b on, ended by the first (\n#|$): the
\* position of the last character before that '\n#' or before the end; -1 when
\* a character that neither '.' nor \n matches comes first
RECURSIVE BodyEnd(_, _)
BodyEnd(md, b) ==
    IF b > Len(md) \/ OccursAt(md, <<NL, "#">>, b) THEN b - 1
    ELSE IF md[b] \in LineTerminators \ {NL} THEN -1
    ELSE BodyEnd(md, b + 1)

\* where the body starts when the second \s* ends at position j: after the
\* newline that follows, or at the end of the string
BodyStart(md, j) == IF j = Len(md) THEN Len(md) + 1 ELSE j + 2

\* (\n|^)#\s*${heading}\s*(\n|$)(?:.|\n)*?(\n#|$) with its '#' at position p:
\* the pairs <<i, j>> of the last positions taken by the first and by the second
\* \s* in a match
HeadingMatches(md, heading, p) ==
    IF ~HashAt(md, p) THEN {}
    ELSE { m \in ((p)..SpacesEnd(md, p + 1)) \X (p..Len(md)) :
             /\ OccursIgnoringCaseAt(md, heading, m[1] + 1)
             /\ m[2] >= m[1] + Len(heading)
             /\ m[2] <= SpacesEnd(md, m[1] + Len(heading) + 1)
             /\ (m[2] = Len(md) \/ md[m[2] + 1] = NL)
             /\ BodyEnd(md, BodyStart(md, m[2])) >= 0 }

\* both \s* are greedy: the match found is the one with the longest first run
\* and, for it, the longest second run.  The value is the end of the lazy body.
HeadingEnd(md, heading, p) ==
    LET ms == HeadingMatches(md, heading, p)
        m == CHOOSE x \in ms :
                 \A y \in ms : y[1] < x[1] \/ (y[1] = x[1] /\ y[2] <= x[2])
    IN BodyEnd(md, BodyStart(md, m[2]))

\* md.replace(replaceRegex, `$1\n\n${content}\n$4`): the leftmost match is
\* replaced; $1 runs from the start of the match to the end of the lazy body
\* and $4 is the '\n#' (or nothing) that ended it, so the text up to the end of
\* the body and the text after it are both kept
ReplaceFirst(md, heading, content) ==
    LET ps == {p \in 1..Len(md) : HeadingMatches(md, heading, p) # {}} IN
    IF ps = {} THEN md
    ELSE LET p == CHOOSE x \in ps : \A y \in ps : x <= y
             b == HeadingEnd(md, heading, p)
         IN SubSeq(md, 1, b) \o <<NL, NL>> \o content \o <<NL>> \o Drop(md, b)

\* md === "" || md.endsWith("\n\n") ? "" : md.endsWith("\n") ? "\n" : "\n\n"
Separator(md) ==
    IF md = <<>> \/ EndsWith(md, <<NL, NL>>) THEN <<>>
    ELSE IF EndsWith(md, <<NL>>) THEN <<NL>>
    ELSE <<NL, NL>>

appendToMdHeading(md, heading, content) ==
    CASE (\A k \in 1..Len(heading) : heading[k] \notin RegexOperators)
           /\ (\A k \in 1..Len(content) : content[k] # "$") ->
        IF testRegex(md, heading)
        THEN ReplaceFirst(md, heading, content)
        ELSE md \o Separator(md) \o <<"#", " ">> \o heading \o <<NL, NL>> \o content

MaxMdLen == 5

MdChars == {"#", NL, " ", "t", "x"}

Headings == {<<"T">>, <<"t", "x">>}

Contents == {<<"c">>}

InitMd ==
    /\ pc = "start"
    /\ args \in [md : SeqsUpTo(MdChars, MaxMdLen), heading : Headings, content : Contents]
    /\ ret = <<>>
    /\ loc = NoLocals

CallAppendToMdHeading ==
    /\ pc = "start"
    /\ ret' = appendToMdHeading(args.md, args.heading, args.content)
    /\ pc' = "appended"
    /\ UNCHANGED <<args, loc>>

NextMd == CallAppendToMdHeading

SpecMd == InitMd /\ [][NextMd]_vars

(***************************************************************************)
(* mergeObjects, isObject, isArray, isMergebleObject.                      *)
(*                                                                         *)
(* Objects and arrays live in a heap and are held by reference, so that    *)
(* the mutation of the target and the sharing of an object between the     *)
(* target and a source are visible.  A value is a pair: <<"number", n>>,   *)
(* <<"undefined", 0>>, or <<"ref", id>> for the object or array heap[id].  *)
(* A heap cell has a kind, the value of each key (Absent for a key the     *)
(* object does not own) and, for an array, its elements.                   *)
(***************************************************************************)
Keys == {"a", "b"}

\* Object.keys lists string keys in insertion order; the objects drawn had their
\* keys inserted in this order
KeyOrder == <<"a", "b">>

Undefined == <<"undefined", 0>>

Absent == <<"absent", 0>>

Number(n) == <<"number", n>>

Ref(id) == <<"ref", id>>

NoKeys == [k \in Keys |-> Absent]

EmptyObject == [kind |-> "object", f |-> NoKeys, elems |-> <<>>]

ArrayOf(elems) == [kind |-> "array", f |-> NoKeys, elems |-> elems]

IsRef(v) == v[1] = "ref"

\* item !== null && typeof item === "object"
isObject(h, item) == IsRef(item)

\* Array.isArray(value)
isArray(h, value) == IsRef(value) /\ h[value[2]].kind = "array"

\* isObject(item) && !isArray(item)
isMergebleObject(h, item) == isObject(h, item) /\ ~isArray(h, item)

\* target[key], undefined for a key the object does not own
Get(h, obj, key) == IF h[obj[2]].f[key] = Absent THEN Undefined ELSE h[obj[2]].f[key]

\* target[key] = v
Set(h, obj, key, v) == [h EXCEPT ![obj[2]].f[key] = v]

\* !v is false: undefined and 0 are falsy, a reference is truthy
Truthy(v) == v # Undefined /\ v # Absent /\ v # Number(0)

RECURSIVE FilterKeys(_, _, _)
FilterKeys(h, obj, ks) ==
    IF ks = <<>> THEN <<>>
    ELSE IF h[obj[2]].f[Head(ks)] # Absent THEN <<Head(ks)>> \o FilterKeys(h, obj, Tail(ks))
    ELSE FilterKeys(h, obj, Tail(ks))

\* Object.keys(source)
ObjectKeys(h, obj) == FilterKeys(h, obj, KeyOrder)

\* a shallow merge: every value of the source is assigned, objects included
RECURSIVE MergeKeys_shallow(_, _, _, _)
MergeKeys_shallow(h, target, source, keys) ==
    IF keys = <<>> THEN h
    ELSE MergeKeys_shallow(Set(h, target, Head(keys), Get(h, source, Head(keys))),
                           target, source, Tail(keys))

RECURSIVE mergeObjects(_, _, _)
RECURSIVE MergeKeys(_, _, _, _)

\* Object.keys(source).forEach((key) => { ... }) over the keys left; the value
\* is the heap after the callbacks
MergeKeys(h, target, source, keys) ==
    IF keys = <<>> THEN h
    ELSE LET key == Head(keys)
             after ==
               IF isMergebleObject(h, Get(h, source, key))
               THEN \* if (!target[key]) target[key] = {}; mergeObjects(target[key], source[key])
                    LET h0 == IF ~Truthy(Get(h, target, key))
                                THEN Set(Append(h, EmptyObject), target, key, Ref(Len(h) + 1))
                                ELSE h
                    IN mergeObjects(h0, Get(h0, target, key), <<Get(h0, source, key)>>)
               ELSE \* target[key] = source[key]
                    Set(h, target, key, Get(h, source, key))
         IN MergeKeys(after, target, source, Tail(keys))

\* mergeObjects(target, ...sources): the heap when the call returns (the value
\* returned is always target)
mergeObjects(h, target, sources) ==
    IF sources = <<>> THEN h
    ELSE LET source == Head(sources) IN
         IF source = Undefined THEN h
         ELSE LET merged ==
                    IF isMergebleObject(h, target) /\ isMergebleObject(h, source)
                    THEN MergeKeys(h, target, source, ObjectKeys(h, source))
                    ELSE h
              IN mergeObjects(merged, target, Tail(sources))

\* ---- the arguments drawn -------------------------------------------------
\* An object literal is written as the set of its leaves, each a path of keys
\* and what is found there: the number 0 ("n0"), the number 1 ("n1"), an array
\* ("arr") or an empty object ("obj").
Leaf(path, what) == <<path, what>>

\* the shapes of a target
TargetShapes ==
    { {},
      {Leaf(<<"a">>, "n0")},
      {Leaf(<<"a">>, "n1")},
      {Leaf(<<"a">>, "arr")},
      {Leaf(<<"a">>, "obj")},
      {Leaf(<<"a", "a">>, "n0")},
      {Leaf(<<"a", "b">>, "n1")},
      {Leaf(<<"a", "a", "a">>, "n1")},
      {Leaf(<<"b">>, "n1")},
      {Leaf(<<"a", "b">>, "n0"), Leaf(<<"b">>, "n1")} }

\* a source is undefined, the number 1, or an object
SourceShapes ==
    {<<"undefined", {}>>, <<"number", {}>>}
      \cup {<<"object", o>> : o \in
              { {},
                {Leaf(<<"a">>, "n0")},
                {Leaf(<<"a">>, "n1")},
                {Leaf(<<"a">>, "arr")},
                {Leaf(<<"a">>, "obj")},
                {Leaf(<<"a", "a">>, "n1")},
                {Leaf(<<"a", "b">>, "n1")},
                {Leaf(<<"a", "a", "b">>, "n1")},
                {Leaf(<<"b">>, "n1")},
                {Leaf(<<"a", "a">>, "n1"), Leaf(<<"b">>, "n0")} }}

\* the elements of every array drawn
ArrayElems == <<Number(3)>>

RECURSIVE Alloc(_, _)
RECURSIVE AllocKeys(_, _, _, _)

\* the heap h extended with the object written as `leaves`, and the reference to it
Alloc(h, leaves) ==
    LET id == Len(h) + 1 IN
    [h |-> AllocKeys(Append(h, EmptyObject), id, leaves, KeyOrder), v |-> Ref(id)]

AllocKeys(h, id, leaves, keys) ==
    IF keys = <<>> THEN h
    ELSE LET key == Head(keys)
             under == {<<Tail(l[1]), l[2]>> : l \in {m \in leaves : m[1] # <<>> /\ Head(m[1]) = key}}
             h1 ==
               IF under = {} THEN h
               ELSE IF <<<<>>, "n0">> \in under THEN Set(h, Ref(id), key, Number(0))
               ELSE IF <<<<>>, "n1">> \in under THEN Set(h, Ref(id), key, Number(1))
               ELSE IF <<<<>>, "arr">> \in under
                 THEN Set(Append(h, ArrayOf(ArrayElems)), Ref(id), key, Ref(Len(h) + 1))
               ELSE LET sub == Alloc(h, under \ {<<<<>>, "obj">>}) IN Set(sub.h, Ref(id), key, sub.v)
         IN AllocKeys(h1, id, leaves, Tail(keys))

\* the heap and the argument values for a list of sources; with `alias`, a
\* source written like an earlier one is that same object, passed again
RECURSIVE AllocSources(_, _, _, _)
AllocSources(h, shapes, vals, alias) ==
    IF Len(vals) = Len(shapes) THEN [h |-> h, vals |-> vals]
    ELSE LET shape == shapes[Len(vals) + 1]
             earlier == {j \in 1..Len(vals) : shapes[j] = shape}
         IN IF shape[1] = "undefined" THEN AllocSources(h, shapes, Append(vals, Undefined), alias)
            ELSE IF shape[1] = "number" THEN AllocSources(h, shapes, Append(vals, Number(1)), alias)
            ELSE IF alias /\ earlier # {}
              THEN AllocSources(h, shapes, Append(vals, vals[CHOOSE j \in earlier : TRUE]), alias)
            ELSE LET o == Alloc(h, shape[2])
                 IN AllocSources(o.h, shapes, Append(vals, o.v), alias)

HasRepeatedObject(shapes) ==
    \E i, j \in 1..Len(shapes) : i < j /\ shapes[i] = shapes[j] /\ shapes[i][1] = "object"

MergeArgs(targetShape, shapes, alias) ==
    LET t == Alloc(<<>>, targetShape)
        ss == AllocSources(t.h, shapes, <<>>, alias)
    IN [heap |-> ss.h, target |-> t.v, sources |-> ss.vals]

MaxSources == 2

InitMerge ==
    /\ pc = "start"
    /\ \E targetShape \in TargetShapes, shapes \in SeqsUpTo(SourceShapes, MaxSources) :
          \E alias \in (IF HasRepeatedObject(shapes) THEN BOOLEAN ELSE {FALSE}) :
              args = MergeArgs(targetShape, shapes, alias)
    /\ ret = [heap |-> <<>>, value |-> Undefined]
    /\ loc = NoLocals

CallMergeObjects ==
    /\ pc = "start"
    /\ ret' = [heap |-> mergeObjects(args.heap, args.target, args.sources),
               value |-> args.target]
    /\ pc' = "merged"
    /\ UNCHANGED <<args, loc>>

NextMerge == CallMergeObjects

SpecMerge == InitMerge /\ [][NextMerge]_vars

(***************************************************************************)
(* Properties of stripTrailingSlash                                        *)
(***************************************************************************)
\* r is p without its one trailing '/', or p itself when p has none
OneSlashRemoved(p, r) == IF EndsWith(p, <<"/">>) THEN r \o <<"/">> = p ELSE r = p

\* C6, as stated: stripTrailingSlash is idempotent, for every string p
\* stripTrailingSlash(stripTrailingSlash(p)) equals stripTrailingSlash(p).
C6_Idempotent ==
    pc = "strippedTwice" => ret = stripTrailingSlash(args.path)

\* C6, amended: stripTrailingSlash removes exactly one trailing '/' if
\* present and is a no-op otherwise, and applying it twice equals applying
\* it once for every string p that does not end with two slashes.
C6_IdempotentUnlessTwoSlashes ==
    /\ pc = "stripped" => OneSlashRemoved(args.path, ret)
    /\ (pc = "strippedTwice" /\ ~EndsWith(args.path, <<"/", "/">>))
          => ret = stripTrailingSlash(args.path) /\ OneSlashRemoved(args.path, ret)

\* a path with exactly one trailing slash has gone through both calls
C6_Witness ==
    /\ pc = "strippedTwice"
    /\ Len(args.path) >= 3
    /\ EndsWith(args.path, <<"/">>)
    /\ ~EndsWith(args.path, <<"/", "/">>)

(***************************************************************************)
(* Properties of isAbsoluteUrl and resolveUrl                              *)
(***************************************************************************)
\* s begins with a scheme: a letter, then letters, digits, '+', '.', '-', then ':'
HasSchemePrefix(s) ==
    \E k \in 2..Len(s) :
        /\ s[1] \in Letters
        /\ s[k] = ":"
        /\ \A j \in 2..(k - 1) : s[j] \in SchemeChars

\* an absolute URL as the specification defines it
BeginsAbsolute(s) == HasSchemePrefix(s) \/ StartsWith(s, <<"/", "/">>)

\* rule 3: relative path join
JoinedToBase(url, to) == stripTrailingSlash(stripTrailingSlash(url) \o <<"/">> \o to)

\* C4: isAbsoluteUrl(url) is true if and only if url begins with a scheme or
\* begins with '//'; a target that does neither is resolved by rule 3 (joined
\* to the base) or rule 4 (replaces the path of the base, or is returned alone
\* when the base does not parse), never by rule 2.
C4_AbsoluteIffSchemeOrLeadingSlashes ==
    /\ pc = "isAbsoluteUrl" => (ret.value <=> BeginsAbsolute(args.to))
    /\ (pc = "resolveUrl" /\ ~BeginsAbsolute(args.to)) =>
          ret.value =
            IF ~StartsWith(args.to, <<"/">>) THEN JoinedToBase(args.url, args.to)
            ELSE IF ParseURL(args.url).ok
                   THEN stripTrailingSlash(HrefWithPathname(ParseURL(args.url), args.to))
                   ELSE stripTrailingSlash(args.to)

\* C7: resolveUrl never throws for a base that does not parse and follows its
\* rules: '//' target gives 'https:' + target, an absolute target is returned,
\* a target not starting with '/' is joined to the base (whether or not the
\* base parses), any other target is returned; each with its trailing slash
\* stripped.
C7_DegradesPerRules ==
    /\ (pc = "resolveUrl" /\ ~ParseURL(args.url).ok) =>
          /\ ~ret.threw
          /\ ret.value =
               IF StartsWith(args.to, <<"/", "/">>)
                 THEN stripTrailingSlash(<<"h", "t", "t", "p", "s", ":">> \o args.to)
               ELSE IF BeginsAbsolute(args.to) THEN stripTrailingSlash(args.to)
               ELSE IF ~StartsWith(args.to, <<"/">>) THEN JoinedToBase(args.url, args.to)
               ELSE stripTrailingSlash(args.to)
    /\ (pc = "resolveUrl" /\ ~BeginsAbsolute(args.to) /\ ~StartsWith(args.to, <<"/">>)) =>
          ~ret.threw /\ ret.value = JoinedToBase(args.url, args.to)

(***************************************************************************)
(* Properties of unescapeHTMLChars                                         *)
(***************************************************************************)
\* one pass over the input, left to right, that decodes at each position the
\* numeric reference, '&amp;' or '&quot;' found there and never looks again at
\* what it has produced
RECURSIVE DecodeOnce(_, _)
DecodeOnce(s, k) ==
    IF k > Len(s) THEN <<>>
    ELSE IF NumericRefEnd(s, k) > 0
      THEN <<fromCharCode(ToUint16(parseInt(SubSeq(s, k + 2, NumericRefEnd(s, k) - 1))))>>
             \o DecodeOnce(s, NumericRefEnd(s, k) + 1)
    ELSE IF OccursAt(s, AmpEntity, k) THEN <<"&">> \o DecodeOnce(s, k + Len(AmpEntity))
    ELSE IF OccursAt(s, QuotEntity, k) THEN <<"\"">> \o DecodeOnce(s, k + Len(QuotEntity))
    ELSE <<s[k]>> \o DecodeOnce(s, k + 1)

\* C5: unescapeHTMLChars decodes each entity of its input exactly once and never
\* decodes again the text a decoding step produced: the result equals one
\* simultaneous left-to-right replacement of the three patterns over the input.
C5_NoDoubleUnescape ==
    pc = "unescaped" => ret = DecodeOnce(args.str, 1)

(***************************************************************************)
(* Properties of mapWithLast                                               *)
(***************************************************************************)
\* C9: mapWithLast returns a sequence of the length of its input whose i-th
\* element is transform(sequence[i], isLast), the transform having been called
\* exactly once per element, in index order, with isLast true for the call on
\* the final element only; an empty input gives no call and an empty result.
C9_MapWithLast ==
    pc = "done" =>
        LET n == Len(args.array) IN
        /\ Len(ret) = n
        /\ \A k \in 1..n : ret[k] = iteratee(args.array[k], k = n)
        /\ Len(loc.calls) = n
        /\ \A k \in 1..n : loc.calls[k] = <<args.array[k], k = n>>
        /\ Cardinality({k \in 1..Len(loc.calls) : loc.calls[k][2]}) = IF n = 0 THEN 0 ELSE 1

\* a call on three elements, the first and the last equal, has returned
C9_Witness ==
    /\ pc = "done"
    /\ Len(args.array) >= 3
    /\ args.array[1] = args.array[Len(args.array)]
    /\ Len(ret) = Len(args.array)

(***************************************************************************)
(* Properties of appendToMdHeading                                         *)
(***************************************************************************)
\* the position after the line that starts at position p
RECURSIVE LineEnd(_, _)
LineEnd(s, p) == IF p > Len(s) \/ s[p] = NL THEN p - 1 ELSE LineEnd(s, p + 1)

\* the line that starts at position p, without its newline
LineAt(s, p) == SubSeq(s, p, LineEnd(s, p))

LineStarts(s) == {p \in 1..Len(s) : p = 1 \/ s[p - 1] = NL}

\* l is a level-1 heading line for h: '#', optional blanks, h compared
\* case-insensitively, optional blanks
IsHeadingLine(l, h) ==
    /\ Len(l) >= 1 /\ l[1] = "#"
    /\ \E a \in 2..(Len(l) + 1) :
          /\ \A k \in 2..(a - 1) : l[k] = " "
          /\ OccursIgnoringCaseAt(l, h, a)
          /\ \A k \in (a + Len(h))..Len(l) : l[k] = " "

HeadingLines(md, h) == {p \in LineStarts(md) : IsHeadingLine(LineAt(md, p), h)}

HashLines(s) == {p \in LineStarts(s) : s[p] = "#"}

\* the last position of the section of the heading line at p: the position
\* before the next line that starts with '#', or the end of the string
SectionEnd(md, p) ==
    LET next == {q \in HashLines(md) : q > p} IN
    IF next = {} THEN Len(md) ELSE (CHOOSE q \in next : \A r \in next : q <= r) - 1

Newlines(n) == [k \in 1..n |-> NL]

\* r is md with the content inserted at the end of the section of the heading
\* line at p, after a blank line: the end of the section is the position after
\* its last character or, when that is a newline, the position before it
InsertedAtSectionEnd(md, p, content, r) ==
    \E x \in {SectionEnd(md, p), SectionEnd(md, p) - 1}, a \in 0..2, b \in 0..2 :
        /\ x >= LineEnd(md, p)
        /\ x = SectionEnd(md, p) - 1 => md[SectionEnd(md, p)] = NL
        /\ r = SubSeq(md, 1, x) \o Newlines(a) \o content \o Newlines(b) \o Drop(md, x)
        /\ EndsWith(SubSeq(md, 1, x) \o Newlines(a), <<NL, NL>>)

\* C3: when md holds a level-1 heading line for the heading (also as its last
\* line, also with an empty section), the content is inserted after a blank
\* line at the end of that heading's section, which runs up to the next line
\* starting with '#' or the end of the string; the text before the heading and
\* after the section is unchanged and no heading line is added.
C3_AppendsToSection ==
    (pc = "appended" /\ HeadingLines(args.md, args.heading) # {}) =>
        /\ \E p \in HeadingLines(args.md, args.heading) :
              InsertedAtSectionEnd(args.md, p, args.content, ret)
        /\ Cardinality(HashLines(ret)) = Cardinality(HashLines(args.md))

\* C8: when md holds no heading line for the heading, the result is
\* md + sep + '# ' + heading + '\n\n' + content, sep being empty if md is empty
\* or ends with two newlines, one newline if md ends with exactly one newline,
\* two newlines otherwise.
C8_AppendsNewHeading ==
    (pc = "appended" /\ HeadingLines(args.md, args.heading) = {}) =>
        LET md == args.md
            sep == IF md = <<>> THEN <<>>
                   ELSE IF Len(md) >= 2 /\ md[Len(md)] = NL /\ md[Len(md) - 1] = NL THEN <<>>
                   ELSE IF md[Len(md)] = NL THEN <<NL>>
                   ELSE <<NL, NL>>
        IN ret = md \o sep \o <<"#", " ">> \o args.heading \o <<NL, NL>> \o args.content

(***************************************************************************)
(* Properties of mergeObjects                                              *)
(***************************************************************************)
\* what is found under the value v of heap h, as a set of leaves: at every path
\* of keys a number, undefined, an array (by identity) or the mark of an object
RECURSIVE Structure(_, _, _)
Structure(h, v, path) ==
    IF isMergebleObject(h, v)
    THEN {<<path, <<"object", 0>>>>}
           \cup UNION {Structure(h, Get(h, v, k), Append(path, k)) :
                         k \in {x \in Keys : h[v[2]].f[x] # Absent}}
    ELSE {<<path, v>>}

\* the objects and arrays reachable from v through the keys of objects
RECURSIVE Reach(_, _)
Reach(h, v) ==
    IF ~IsRef(v) THEN {}
    ELSE {v[2]} \cup UNION {Reach(h, h[v[2]].f[k]) : k \in Keys}

SourceObjects == UNION {Reach(args.heap, args.sources[i]) : i \in 1..Len(args.sources)}

RECURSIVE WithoutUndefined(_)
WithoutUndefined(ss) ==
    IF ss = <<>> THEN <<>>
    ELSE IF Head(ss) = Undefined THEN WithoutUndefined(Tail(ss))
    ELSE <<Head(ss)>> \o WithoutUndefined(Tail(ss))

\* C1: mergeObjects skips the undefined entries of the source list and still
\* processes the other sources left to right: for a mergeable target the
\* resulting target equals the result of the call with the undefined entries
\* removed from the list.
C1_SkipsUndefinedSources ==
    (pc = "merged" /\ isMergebleObject(args.heap, args.target)) =>
        Structure(ret.heap, args.target, <<>>)
          = Structure(mergeObjects(args.heap, args.target, WithoutUndefined(args.sources)),
                      args.target, <<>>)

\* the rule of C2 for the value tv the target holds where the deciding source
\* holds v: an array or a primitive is held as it is, an object is merged deep
RECURSIVE Conforms(_, _, _)
Conforms(h, tv, v) ==
    IF isMergebleObject(h, v)
    THEN /\ isMergebleObject(h, tv)
         /\ \A j \in {x \in Keys : h[v[2]].f[x] # Absent} :
               Conforms(h, Get(h, tv, j), Get(h, v, j))
    ELSE tv = v

SourcesWith(k) ==
    {i \in 1..Len(args.sources) : args.heap[args.sources[i][2]].f[k] # Absent}

\* C2: with a mergeable target and mergeable sources, for every key k the value
\* v of the last source that owns k decides target[k]: an array or a primitive
\* is target[k] itself (overwritten, never concatenated), a mergeable object
\* makes target[k] a mergeable object in which every key of v follows the same
\* rule.
C2_LaterSourcesWin ==
    (/\ pc = "merged"
     /\ isMergebleObject(args.heap, args.target)
     /\ \A i \in 1..Len(args.sources) : isMergebleObject(args.heap, args.sources[i])) =>
        \A k \in Keys :
            SourcesWith(k) # {} =>
                LET last == CHOOSE i \in SourcesWith(k) : \A j \in SourcesWith(k) : j <= i
                IN Conforms(ret.heap, Get(ret.heap, args.target, k),
                            Get(args.heap, args.sources[last], k))

NoSharing == Reach(args.heap, args.target) \cap SourceObjects = {}

\* C10: provided the target shares no object with any source before the call,
\* every object of a source, nested ones included, has the same keys and values
\* after the call as before, and no mergeable object of a source is reachable
\* from the target (an absent or falsy target[key] receives a fresh object).
C10_SourcesUntouched ==
    (pc = "merged" /\ NoSharing) =>
        /\ \A id \in SourceObjects : ret.heap[id] = args.heap[id]
        /\ \A id \in Reach(ret.heap, args.target) :
              id \in SourceObjects => ret.heap[id].kind = "array"

\* two sources hold an object under a key the target did not hold, and the
\* target now holds there an object that the call created
C10_Witness ==
    /\ pc = "merged"
    /\ Len(args.sources) = 2
    /\ \E k \in Keys :
          /\ ~Truthy(Get(args.heap, args.target, k))
          /\ \A i \in 1..2 :
                /\ isMergebleObject(args.heap, args.sources[i])
                /\ isMergebleObject(args.heap, Get(args.heap, args.sources[i], k))
          /\ args.sources[1] # args.sources[2]
          /\ IsRef(Get(ret.heap, args.target, k))
          /\ Get(ret.heap, args.target, k)[2] > Len(args.heap)

====
